---- MODULE Spec2Model ----
(***************************************************************************)
(* jerry-ext/handler/handler-register.c: batch property registration,      *)
(* its cleanup routine and the single-name accessors, over a model of the  *)
(* runtime's reference-counted value handles.                              *)
(*                                                                         *)
(* A handle is an index into heap; jerry_value_free (h) by function f      *)
(* adds one to heap[h].freed[f].  The embedding application (the caller)   *)
(* owns one entry table for the whole behaviour and calls the API          *)
(* functions one after the other (single-threaded).  jerryx_set_properties *)
(* and jerryx_release_property_entry advance one runtime call at a time;   *)
(* the accessors run as one step each.                                     *)
(*                                                                         *)
(* Spec is the caller that registers its table and cleans up; the target   *)
(* object starts with any properties.  SpecAccessors is the caller that    *)
(* uses the single-name accessors.  SpecGlobal is the caller that          *)
(* registers native functions in the global object; there props are the    *)
(* properties of the current realm's global object.                        *)
(***************************************************************************)
EXTENDS Integers, Sequences, FiniteSets, TLC

\* ------------------------------------------------------------------ bounds
MaxEntries == 2    \* longest entry table (entries before the sentinel)
MaxAccess == 2     \* accessor calls (set/get/has) the caller makes
MaxCleanup == 2    \* calls of jerryx_release_property_entry the caller makes

Names == {"a", "b"}        \* property names the caller uses
ValueSeq == <<"V1", "V2">>
Values == {ValueSeq[k] : k \in DOMAIN ValueSeq}   \* runtime values the caller installs
Handlers == {"H1", "H2"}   \* native callbacks the caller registers
NULL == "NULL"             \* the absent name of the (NULL, 0) sentinel
Absent == "absent"         \* a property the object does not have

Funcs == {"jerryx_set_properties", "jerryx_release_property_entry",
          "jerryx_set_property_str", "jerryx_get_property_str",
          "jerryx_has_property_str", "jerryx_handler_register_global",
          "caller"}
RuntimeFuncs == {"jerry_string_sz", "jerry_object_set", "jerry_object_get",
                 "jerry_object_has", "jerry_value_free", "jerry_undefined",
                 "jerry_current_realm", "jerry_function_external"}

VARIABLES
  entries,          \* the caller's table: <<>> when absent, else entries then sentinel
  heap,             \* every handle ever obtained: [kind, data, freed]
  props,            \* the properties of the target object: name -> value or Absent
  pc,               \* "idle" (caller level) or the source line about to run
  target_object,    \* argument of the running jerryx_set_properties call
  idx,              \* local idx of the running function
  prop_name,        \* local prop_name of jerryx_set_properties
  result,           \* local result of jerryx_set_properties
  register_result,  \* the caller's copy of the jerryx_register_result returned
  batch_called,     \* the caller has passed its table to jerryx_set_properties
  n_cleanup,        \* calls of jerryx_release_property_entry so far
  n_access,         \* accessor calls so far
  call_log,         \* the API calls that have returned, in order
  set_log,          \* jerry_object_set calls made by jerryx_set_properties
  rt_calls,         \* runtime calls made by the current (or last) API call
  heap0,            \* heap when the current (or last) API call was entered
  props0            \* props when the current (or last) API call was entered

vars == <<entries, heap, props, pc, target_object, idx, prop_name, result,
          register_result, batch_called, n_cleanup, n_access, call_log,
          set_log, rt_calls, heap0, props0>>

locals == <<target_object, idx, prop_name, result>>
budget == <<batch_called, n_cleanup, n_access>>

\* ------------------------------------------------------- the runtime (heap)
Cell(kind, data) == [kind |-> kind, data |-> data, freed |-> [f \in Funcs |-> 0]]

\* Fixed handles of the caller: the target object, a value that is no
\* object, and one value handle per runtime value for the accessors.
OBJ == 1
NONOBJ == 2
CallerValue(k) == 2 + k
NCallerValues == Len(ValueSeq)
EntryValue(i) == 2 + NCallerValues + i      \* handle owned by entry i (1-based)

Frees(hp, h) ==
  hp[h].freed["jerryx_set_properties"] + hp[h].freed["jerryx_release_property_entry"]
  + hp[h].freed["jerryx_set_property_str"] + hp[h].freed["jerryx_get_property_str"]
  + hp[h].freed["jerryx_has_property_str"]
  + hp[h].freed["jerryx_handler_register_global"] + hp[h].freed["caller"]

Live(hp, h) == Frees(hp, h) = 0

jerry_value_free(hp, h, by) == [hp EXCEPT ![h].freed[by] = @ + 1]

jerry_value_is_boolean(hp, h) == hp[h].kind = "boolean"
jerry_value_is_exception(hp, h) == hp[h].kind = "error"
jerry_value_is_true(hp, h) == hp[h].kind = "boolean" /\ hp[h].data = "true"

\* Each constructor returns the heap with the new handle appended; the new
\* handle is Len of the returned heap.
jerry_string_sz(hp, name) == Append(hp, Cell("string", name))
jerry_undefined(hp) == Append(hp, Cell("undefined", ""))
\* A new reference to the global object, and a function object for a callback.
jerry_current_realm(hp) == Append(hp, Cell("object", ""))
jerry_function_external(hp, handler) == Append(hp, Cell("function", handler))

\* An object whose property set can be refused without an error: the set
\* then answers boolean false, which the contract of jerry_object_set (TRUE
\* or an error object) leaves out.
AnswersFalse == "answers_false"

\* What jerry_object_set may answer for a target: a boolean true on success,
\* an error otherwise; a target that is no object is always refused.
ObjectSetOutcomes(hp, t) ==
  IF hp[t].kind = "object"
  THEN {"true", "error"} \cup (IF hp[t].data = AnswersFalse THEN {"false"} ELSE {})
  ELSE {"error"}

jerry_object_set_heap(hp, out) ==
  Append(hp, IF out = "error" THEN Cell("error", "") ELSE Cell("boolean", out))

jerry_object_set_props(hp, pr, nh, vh, out) ==
  IF out = "true" THEN [pr EXCEPT ![hp[nh].data] = hp[vh].data] ELSE pr

\* jerry_object_get: a fresh handle on the property's value, undefined when
\* the object has no such property, an error when the target is no object.
jerry_object_get(hp, pr, t, nh) ==
  Append(hp, IF hp[t].kind # "object" THEN Cell("error", "")
             ELSE IF pr[hp[nh].data] = Absent THEN Cell("undefined", "")
             ELSE Cell("value", pr[hp[nh].data]))

\* jerry_object_has: a boolean, or an error when the check itself fails.
ObjectHasOutcomes(hp, pr, t, nh) ==
  IF hp[t].kind # "object" THEN {"error"}
  ELSE {"error", IF pr[hp[nh].data] # Absent THEN "true" ELSE "false"}

jerry_object_has(hp, out) ==
  Append(hp, IF out = "error" THEN Cell("error", "") ELSE Cell("boolean", out))

\* ------------------------------------------------------------ entry tables
Sentinel == [name |-> NULL, value |-> 0]

Table(n, nm, vl) ==
  [i \in 1..(n + 1) |->
     IF i <= n THEN [name |-> nm[i], value |-> EntryValue(i)] ELSE Sentinel]

\* entries[i] of the C code is entries[i + 1] here.
Entry(i) == entries[i + 1]
NEntries == IF entries = <<>> THEN 0 ELSE Len(entries) - 1

InitHeap(n, vl) ==
  <<Cell("object", ""), Cell("number", "")>>
  \o [k \in 1..NCallerValues |-> Cell("value", ValueSeq[k])]
  \o [i \in 1..n |-> Cell("value", vl[i])]

NoCalls == [f \in RuntimeFuncs |-> 0]
Count(c, f) == [c EXCEPT ![f] = @ + 1]

\* The caller before its first API call, once its table and handles exist.
InitCaller ==
  /\ props \in [Names -> Values \cup {Absent}]
  /\ pc = "idle"
  /\ target_object = 0
  /\ idx = 0
  /\ prop_name = 0
  /\ result = 0
  /\ register_result = [outcome |-> 0, registered |-> 0]
  /\ batch_called = FALSE
  /\ n_cleanup = 0
  /\ n_access = 0
  /\ call_log = <<>>
  /\ set_log = <<>>
  /\ rt_calls = NoCalls
  /\ heap0 = heap
  /\ props0 = props

Init ==
  /\ \/ /\ entries = <<>>
        /\ heap = InitHeap(0, <<>>)
     \/ \E n \in 0..MaxEntries :
          \E nm \in [1..n -> Names], vl \in [1..n -> Values] :
            /\ entries = Table(n, nm, vl)
            /\ heap = InitHeap(n, vl)
  /\ InitCaller

\* The same caller with a target object whose sets may answer boolean false.
InitAnyBoolean ==
  /\ \E n \in 0..MaxEntries :
       \E nm \in [1..n -> Names], vl \in [1..n -> Values] :
         /\ entries = Table(n, nm, vl)
         /\ heap = [InitHeap(n, vl) EXCEPT ![OBJ].data = AnswersFalse]
  /\ InitCaller

\* An API call that has returned, as the caller sees it.
Call(fn, t, name, value, registered, ret, has, rt) ==
  [fn |-> fn, target |-> t, name |-> name, value |-> value,
   registered |-> registered, ret |-> ret, has |-> has, rt |-> rt]

\* ---------------------------------------------------- jerryx_set_properties
\* return JERRYX_SET_PROPERTIES_RESULT (VALUE, IDX), stored by the caller.
SetPropertiesReturn(t, value, i) ==
  /\ register_result' = [outcome |-> value, registered |-> i]
  /\ call_log' = Append(call_log,
                        Call("jerryx_set_properties", t, "", 0, i, value, "", 0))
  /\ pc' = "idle"

AbsentTableOutcome_Error(hp) == Append(hp, Cell("error", ""))

\* Line 69: the outcome handle made for an absent table, jerry_undefined ().
AbsentTableOutcome(hp) == jerry_undefined(hp)

\* Lines 65-70: entry, and the answer for an absent table.
SetPropertiesCall ==
  /\ pc = "idle"
  /\ ~batch_called
  /\ \E t \in {OBJ, NONOBJ} :
       /\ target_object' = t
       /\ idx' = 0
       /\ prop_name' = 0
       /\ result' = 0
       /\ batch_called' = TRUE
       /\ heap0' = heap
       /\ props0' = props
       /\ set_log' = <<>>
       /\ IF entries = <<>>
          THEN /\ heap' = AbsentTableOutcome(heap)
               /\ rt_calls' = Count(NoCalls, "jerry_undefined")
               /\ SetPropertiesReturn(t, Len(heap'), 0)
          ELSE /\ heap' = heap
               /\ rt_calls' = NoCalls
               /\ pc' = "sp_72"
               /\ UNCHANGED <<register_result, call_log>>
  /\ UNCHANGED <<entries, props, n_cleanup, n_access>>

\* Line 72: the loop test, and line 94 when the sentinel is reached.
SetPropertiesLoop ==
  /\ pc = "sp_72"
  /\ IF Entry(idx).name # NULL
     THEN /\ pc' = "sp_76"
          /\ UNCHANGED <<heap, rt_calls, register_result, call_log>>
     ELSE /\ heap' = jerry_undefined(heap)
          /\ rt_calls' = Count(rt_calls, "jerry_undefined")
          /\ SetPropertiesReturn(target_object, Len(heap'), idx)
  /\ UNCHANGED <<entries, props, locals, budget, set_log, heap0, props0>>

\* Line 76: prop_name = jerry_string_sz (entry->name).
SetPropertiesName ==
  /\ pc = "sp_76"
  /\ heap' = jerry_string_sz(heap, Entry(idx).name)
  /\ prop_name' = Len(heap')
  /\ rt_calls' = Count(rt_calls, "jerry_string_sz")
  /\ pc' = "sp_77"
  /\ UNCHANGED <<entries, props, target_object, idx, result, register_result,
                 budget, call_log, set_log, heap0, props0>>

\* Line 77: result = jerry_object_set (target_object, prop_name, entry->value).
SetPropertiesSet ==
  /\ pc = "sp_77"
  /\ \E out \in ObjectSetOutcomes(heap, target_object) :
       /\ heap' = jerry_object_set_heap(heap, out)
       /\ props' = jerry_object_set_props(heap, props, prop_name, Entry(idx).value, out)
       /\ set_log' = Append(set_log, [idx |-> idx, out |-> out, result |-> Len(heap')])
  /\ result' = Len(heap')
  /\ rt_calls' = Count(rt_calls, "jerry_object_set")
  /\ pc' = "sp_79"
  /\ UNCHANGED <<entries, target_object, idx, prop_name, register_result,
                 budget, call_log, heap0, props0>>

SetPropertiesFreeName_Skip ==
  /\ pc = "sp_79"
  /\ pc' = "sp_85"
  /\ rt_calls' = rt_calls
  /\ UNCHANGED <<entries, heap, props, locals, register_result, budget,
                 call_log, set_log, heap0, props0>>

\* Line 79: jerry_value_free (prop_name).
SetPropertiesFreeName ==
  /\ pc = "sp_79"
  /\ heap' = jerry_value_free(heap, prop_name, "jerryx_set_properties")
  /\ rt_calls' = Count(rt_calls, "jerry_value_free")
  /\ pc' = "sp_85"
  /\ UNCHANGED <<entries, props, locals, register_result, budget, call_log,
                 set_log, heap0, props0>>

SetFailed_Never(hp, r) == FALSE

\* The test of line 85: the set did not answer a boolean.
SetFailed(hp, r) == ~jerry_value_is_boolean(hp, r)

FailedSetHeap_Free(hp, r) == jerry_value_free(hp, r, "jerryx_set_properties")

\* Lines 85-88: the failing result is returned as it is, nothing is released.
FailedSetHeap(hp, r) == hp

\* Lines 85-88: return the failing result with the index reached.
SetPropertiesCheck ==
  /\ pc = "sp_85"
  /\ IF SetFailed(heap, result)
     THEN /\ heap' = FailedSetHeap(heap, result)
          /\ SetPropertiesReturn(target_object, result, idx)
     ELSE /\ pc' = "sp_90"
          /\ UNCHANGED <<heap, register_result, call_log>>
  /\ UNCHANGED <<entries, props, locals, budget, set_log, rt_calls,
                 heap0, props0>>

InstalledValueHeap_Kept(hp, h) == hp

\* Line 90: jerry_value_free (entry->value), for the entry's handle h.
InstalledValueHeap(hp, h) == jerry_value_free(hp, h, "jerryx_set_properties")

SetPropertiesFreeValue ==
  /\ pc = "sp_90"
  /\ heap' = InstalledValueHeap(heap, Entry(idx).value)
  /\ rt_calls' = Count(rt_calls, "jerry_value_free")
  /\ pc' = "sp_91"
  /\ UNCHANGED <<entries, props, locals, register_result, budget, call_log,
                 set_log, heap0, props0>>

SetPropertiesFreeResult_Retry ==
  /\ pc = "sp_91"
  /\ heap' = jerry_value_free(heap, result, "jerryx_set_properties")
  /\ rt_calls' = Count(rt_calls, "jerry_value_free")
  /\ idx' = idx
  /\ pc' = "sp_72"
  /\ UNCHANGED <<entries, props, target_object, prop_name, result,
                 register_result, budget, call_log, set_log, heap0, props0>>

\* Line 91 and the idx++ of line 72: jerry_value_free (result).
SetPropertiesFreeResult ==
  /\ pc = "sp_91"
  /\ heap' = jerry_value_free(heap, result, "jerryx_set_properties")
  /\ rt_calls' = Count(rt_calls, "jerry_value_free")
  /\ idx' = idx + 1
  /\ pc' = "sp_72"
  /\ UNCHANGED <<entries, props, target_object, prop_name, result,
                 register_result, budget, call_log, set_log, heap0, props0>>

\* -------------------------------------------- jerryx_release_property_entry
ReleaseReturn(r) ==
  /\ call_log' = Append(call_log,
                        Call("jerryx_release_property_entry", 0, "", 0, r, 0, "", 0))
  /\ pc' = "idle"

ReleaseStart_Zero(r) == 0
ReleaseStart_Next(r) == r + 1

\* Index at which the cleanup loop of line 113 starts.
ReleaseStart(r) == r

\* Lines 108-113: entry.  The caller passes the result of its registration
\* unmodified; with an absent table any result can be passed.
ReleaseCall ==
  /\ pc = "idle"
  /\ n_cleanup < MaxCleanup
  /\ entries = <<>> \/ batch_called
  /\ \E r \in 0..MaxEntries :
       /\ entries # <<>> => r = register_result.registered
       /\ IF entries = <<>>
          THEN /\ ReleaseReturn(r)
               /\ UNCHANGED idx
          ELSE /\ idx' = ReleaseStart(r)
               /\ pc' = "rel_113"
               /\ UNCHANGED call_log
  /\ n_cleanup' = n_cleanup + 1
  /\ rt_calls' = NoCalls
  /\ heap0' = heap
  /\ props0' = props
  /\ UNCHANGED <<entries, heap, props, target_object, prop_name, result,
                 register_result, batch_called, n_access, set_log>>

\* Line 113: the loop test.
ReleaseLoop ==
  /\ pc = "rel_113"
  /\ IF Entry(idx).name # NULL
     THEN /\ pc' = "rel_115"
          /\ UNCHANGED call_log
     ELSE ReleaseReturn(register_result.registered)
  /\ UNCHANGED <<entries, heap, props, locals, register_result, budget,
                 set_log, rt_calls, heap0, props0>>

\* Line 115 and the idx++ of line 113: jerry_value_free (entries[idx].value).
ReleaseFree ==
  /\ pc = "rel_115"
  /\ heap' = jerry_value_free(heap, Entry(idx).value, "jerryx_release_property_entry")
  /\ rt_calls' = Count(rt_calls, "jerry_value_free")
  /\ idx' = idx + 1
  /\ pc' = "rel_113"
  /\ UNCHANGED <<entries, props, target_object, prop_name, result,
                 register_result, budget, call_log, set_log, heap0, props0>>

\* ------------------------------------------------ the single-name accessors
\* Value handles the caller may pass: live handles on plain values.
CallerValues == {h \in 1..Len(heap) : heap[h].kind = "value" /\ Live(heap, h)}

AccessorFrame ==
  /\ pc = "idle"
  /\ n_access < MaxAccess
  /\ n_access' = n_access + 1
  /\ heap0' = heap
  /\ props0' = props
  /\ UNCHANGED <<entries, pc, locals, register_result, batch_called,
                 n_cleanup, set_log>>

SetPropertyStrHeap_FreeValue(hp, name, value, out) ==
  jerry_value_free(
    jerry_value_free(jerry_object_set_heap(jerry_string_sz(hp, name), out),
                     Len(hp) + 1, "jerryx_set_property_str"),
    value, "jerryx_set_property_str")

\* Lines 136-141: the heap after jerryx_set_property_str; the name handle is
\* Len(hp) + 1 and the returned result_val is Len(hp) + 2.
SetPropertyStrHeap(hp, name, value, out) ==
  jerry_value_free(jerry_object_set_heap(jerry_string_sz(hp, name), out),
                   Len(hp) + 1, "jerryx_set_property_str")

\* Line 137: the property the set is made on.
SetPropertyStrProps(hp, pr, name, value, out) ==
  jerry_object_set_props(jerry_string_sz(hp, name), pr, Len(hp) + 1, value, out)

\* Line 141: return result_val.
SetPropertyStrReturn(hp) == Len(hp) + 2

jerryx_set_property_str ==
  /\ AccessorFrame
  /\ \E t \in {OBJ, NONOBJ}, name \in Names, value \in CallerValues :
       \E out \in ObjectSetOutcomes(heap, t) :
         /\ heap' = SetPropertyStrHeap(heap, name, value, out)
         /\ props' = SetPropertyStrProps(heap, props, name, value, out)
         /\ call_log' = Append(call_log,
              Call("jerryx_set_property_str", t, name, value, 0,
                   SetPropertyStrReturn(heap), "", Len(heap) + 2))
  /\ rt_calls' = [NoCalls EXCEPT !["jerry_string_sz"] = 1,
                                 !["jerry_object_set"] = 1,
                                 !["jerry_value_free"] = 1]

\* Lines 159-161: the heap after jerryx_get_property_str; the name handle is
\* Len(hp) + 1 and result_val is Len(hp) + 2.
GetPropertyStrHeap(hp, pr, t, name) ==
  jerry_value_free(jerry_object_get(jerry_string_sz(hp, name), pr, t, Len(hp) + 1),
                   Len(hp) + 1, "jerryx_get_property_str")

GetPropertyStrReturn_Name(hp) == Len(hp) + 1

\* Line 163: return result_val.
GetPropertyStrReturn(hp) == Len(hp) + 2

jerryx_get_property_str ==
  /\ AccessorFrame
  /\ \E t \in {OBJ, NONOBJ}, name \in Names :
       /\ heap' = GetPropertyStrHeap(heap, props, t, name)
       /\ call_log' = Append(call_log,
            Call("jerryx_get_property_str", t, name, 0, 0,
                 GetPropertyStrReturn(heap), "", Len(heap) + 2))
  /\ props' = props
  /\ rt_calls' = [NoCalls EXCEPT !["jerry_string_sz"] = 1,
                                 !["jerry_object_get"] = 1,
                                 !["jerry_value_free"] = 1]

HasPropertyStrHeap_LeakOnError(hp, name, out) ==
  IF out = "error"
  THEN jerry_value_free(jerry_object_has(jerry_string_sz(hp, name), out),
                        Len(hp) + 1, "jerryx_has_property_str")
  ELSE jerry_value_free(
         jerry_value_free(jerry_object_has(jerry_string_sz(hp, name), out),
                          Len(hp) + 2, "jerryx_has_property_str"),
         Len(hp) + 1, "jerryx_has_property_str")

\* Lines 181-192: the heap after jerryx_has_property_str; the name handle is
\* Len(hp) + 1 and has_prop_val is Len(hp) + 2.
HasPropertyStrHeap(hp, name, out) ==
  jerry_value_free(
    jerry_value_free(jerry_object_has(jerry_string_sz(hp, name), out),
                     Len(hp) + 2, "jerryx_has_property_str"),
    Len(hp) + 1, "jerryx_has_property_str")

HasPropertyStrReturn_AnyAnswer(hp, h) == ~jerry_value_is_exception(hp, h)

\* Lines 181-189 and 194: has_property, for the check's answer h in heap hp.
HasPropertyStrReturn(hp, h) ==
  IF ~jerry_value_is_exception(hp, h) THEN jerry_value_is_true(hp, h) ELSE FALSE

jerryx_has_property_str ==
  /\ AccessorFrame
  /\ \E t \in {OBJ, NONOBJ}, name \in Names :
       \E out \in ObjectHasOutcomes(jerry_string_sz(heap, name), props, t, Len(heap) + 1) :
         /\ heap' = HasPropertyStrHeap(heap, name, out)
         /\ call_log' = Append(call_log,
              Call("jerryx_has_property_str", t, name, 0, 0, 0,
                   IF HasPropertyStrReturn(heap', Len(heap) + 2)
                     THEN "true" ELSE "false",
                   Len(heap) + 2))
  /\ props' = props
  /\ rt_calls' = [NoCalls EXCEPT !["jerry_string_sz"] = 1,
                                 !["jerry_object_has"] = 1,
                                 !["jerry_value_free"] = 2]

\* ------------------------------------------ jerryx_handler_register_global
\* Lines 31-35: global_obj_val is Len(hp) + 1, function_name_val Len(hp) + 2,
\* function_val Len(hp) + 3 and result_val Len(hp) + 4.
RegisterGlobalObtained(hp, name_p, handler_p, out) ==
  jerry_object_set_heap(
    jerry_function_external(jerry_string_sz(jerry_current_realm(hp), name_p),
                            handler_p),
    out)

RegisterGlobalHeap_LeakOnError(hp, name_p, handler_p, out) ==
  IF out = "error"
  THEN RegisterGlobalObtained(hp, name_p, handler_p, out)
  ELSE jerry_value_free(
         jerry_value_free(
           jerry_value_free(RegisterGlobalObtained(hp, name_p, handler_p, out),
                            Len(hp) + 3, "jerryx_handler_register_global"),
           Len(hp) + 2, "jerryx_handler_register_global"),
         Len(hp) + 1, "jerryx_handler_register_global")

\* Lines 31-39: the heap after jerryx_handler_register_global.
RegisterGlobalHeap(hp, name_p, handler_p, out) ==
  jerry_value_free(
    jerry_value_free(
      jerry_value_free(RegisterGlobalObtained(hp, name_p, handler_p, out),
                       Len(hp) + 3, "jerryx_handler_register_global"),
      Len(hp) + 2, "jerryx_handler_register_global"),
    Len(hp) + 1, "jerryx_handler_register_global")

\* Line 35: the property set on the global object.
RegisterGlobalProps(hp, pr, name_p, handler_p, out) ==
  jerry_object_set_props(RegisterGlobalObtained(hp, name_p, handler_p, out),
                         pr, Len(hp) + 2, Len(hp) + 3, out)

\* Line 41: return result_val.
RegisterGlobalReturn(hp) == Len(hp) + 4

jerryx_handler_register_global ==
  /\ AccessorFrame
  /\ \E name_p \in Names, handler_p \in Handlers :
       \E out \in ObjectSetOutcomes(jerry_current_realm(heap), Len(heap) + 1) :
         /\ heap' = RegisterGlobalHeap(heap, name_p, handler_p, out)
         /\ props' = RegisterGlobalProps(heap, props, name_p, handler_p, out)
         /\ call_log' = Append(call_log,
              Call("jerryx_handler_register_global", Len(heap) + 1, name_p,
                   Len(heap) + 3, 0, RegisterGlobalReturn(heap), "", Len(heap) + 4))
  /\ rt_calls' = [NoCalls EXCEPT !["jerry_current_realm"] = 1,
                                 !["jerry_string_sz"] = 1,
                                 !["jerry_function_external"] = 1,
                                 !["jerry_object_set"] = 1,
                                 !["jerry_value_free"] = 3]

\* --------------------------------------------------------------- the caller
\* The caller releases a handle an API call returned to it (the outcome of a
\* registration, the result of a set or a get), once.
CallerFree ==
  /\ pc = "idle"
  /\ \E j \in DOMAIN call_log :
       /\ call_log[j].ret # 0
       /\ heap[call_log[j].ret].freed["caller"] = 0
       /\ heap' = jerry_value_free(heap, call_log[j].ret, "caller")
  /\ UNCHANGED <<entries, props, pc, locals, register_result, budget,
                 call_log, set_log, rt_calls, heap0, props0>>

\* The caller of the accessors has no entry table.
InitAccessors == Init /\ entries = <<>>

NextAccessors ==
  \/ jerryx_set_property_str
  \/ jerryx_get_property_str
  \/ jerryx_has_property_str
  \/ CallerFree

SpecAccessors == InitAccessors /\ [][NextAccessors]_vars

\* The caller that registers native functions in the global object.
NextGlobal ==
  \/ jerryx_handler_register_global
  \/ CallerFree

SpecGlobal == InitAccessors /\ [][NextGlobal]_vars

Next ==
  \/ SetPropertiesCall
  \/ SetPropertiesLoop
  \/ SetPropertiesName
  \/ SetPropertiesSet
  \/ SetPropertiesFreeName
  \/ SetPropertiesCheck
  \/ SetPropertiesFreeValue
  \/ SetPropertiesFreeResult
  \/ ReleaseCall
  \/ ReleaseLoop
  \/ ReleaseFree
  \/ CallerFree

Spec == Init /\ [][Next]_vars

\* The steps inside a running API function.  The functions are synchronous
\* and run on the caller's thread, so a call that has started keeps running.
Running ==
  \/ SetPropertiesLoop
  \/ SetPropertiesName
  \/ SetPropertiesSet
  \/ SetPropertiesFreeName
  \/ SetPropertiesCheck
  \/ SetPropertiesFreeValue
  \/ SetPropertiesFreeResult
  \/ ReleaseLoop
  \/ ReleaseFree

SpecLive == Spec /\ WF_vars(Running)

\* Registration and cleanup on a runtime whose set may answer boolean false.
SpecAnyBoolean == InitAnyBoolean /\ [][Next]_vars

\* ================================================================== claims
\* jerryx_set_properties has returned to the caller.
BatchReturned ==
  \E j \in DOMAIN call_log : call_log[j].fn = "jerryx_set_properties"

EntryIdx == 0..(NEntries - 1)

\* The entry's object_set succeeded / the protocol released the entry's handle.
Installed(i) == \E k \in DOMAIN set_log : set_log[k].idx = i /\ set_log[k].out = "true"
ReleasedBySet(i) == heap[Entry(i).value].freed["jerryx_set_properties"]
ReleasedByCleanup(i) == heap[Entry(i).value].freed["jerryx_release_property_entry"]

AllSetsSucceeded == \A k \in DOMAIN set_log : set_log[k].out = "true"
SomeSetFailed == \E k \in DOMAIN set_log : set_log[k].out # "true"
\* Index of the first entry whose object_set failed.
FirstFailed ==
  CHOOSE i \in EntryIdx :
    /\ \E k \in DOMAIN set_log : set_log[k].idx = i /\ set_log[k].out # "true"
    /\ \A k \in DOMAIN set_log : set_log[k].out # "true" => set_log[k].idx >= i
FailedResult ==
  (CHOOSE k \in DOMAIN set_log : set_log[k].idx = FirstFailed /\ set_log[k].out # "true")

\* The value the target holds under entry i's name once entries 0..m-1 are
\* installed in table order: a later entry of the same name overwrites.
LastSame(i, m) ==
  CHOOSE j \in 0..(m - 1) :
    /\ Entry(j).name = Entry(i).name
    /\ \A l \in 0..(m - 1) : Entry(l).name = Entry(i).name => l <= j
HoldsEntries(m) ==
  \A i \in 0..(m - 1) :
    props[Entry(i).name] = heap[Entry(LastSame(i, m)).value].data

\* C1: on a table of n >= 1 entries whose sets all succeed,
\* jerryx_set_properties returns registered = n with an undefined outcome,
\* the target holds every entry's property, and the call released every
\* entry's value handle exactly once.
C1_FullSuccess ==
  (BatchReturned /\ NEntries >= 1 /\ AllSetsSucceeded) =>
    /\ register_result.registered = NEntries
    /\ heap[register_result.outcome].kind = "undefined"
    /\ HoldsEntries(NEntries)
    /\ \A i \in EntryIdx : ReleasedBySet(i) = 1

C1_Witness ==
  /\ BatchReturned /\ NEntries = MaxEntries /\ AllSetsSucceeded
  /\ register_result.registered = MaxEntries
  /\ \A i \in EntryIdx : Installed(i) /\ ReleasedBySet(i) = 1

\* C2: when entry k is the first whose object_set fails, object_set is never
\* called for an index above k and the call releases no value handle of
\* index >= k; it returns registered = k with the failing set's result as the
\* outcome, and the properties of entries 0..k-1 are on the target.
C2_FirstFailure ==
  SomeSetFailed =>
    /\ \A k \in DOMAIN set_log : set_log[k].idx <= FirstFailed
    /\ \A i \in EntryIdx : i >= FirstFailed => ReleasedBySet(i) = 0
    /\ BatchReturned =>
         /\ register_result.registered = FirstFailed
         /\ register_result.outcome = set_log[FailedResult].result
         /\ jerry_value_is_exception(heap, register_result.outcome)
         /\ HoldsEntries(FirstFailed)

C2_Witness ==
  /\ BatchReturned /\ SomeSetFailed /\ NEntries = 2 /\ FirstFailed = 1
  /\ register_result.registered = 1
  /\ Installed(0) /\ ReleasedBySet(0) = 1 /\ ReleasedBySet(1) = 0

\* C3: one jerryx_set_properties followed by exactly one
\* jerryx_release_property_entry with the same table and the unmodified
\* result releases every entry's value handle exactly once: below registered
\* by jerryx_set_properties alone, from registered on by the cleanup alone.
C3_ReleasedOnce ==
  (BatchReturned /\ entries # <<>> /\ n_cleanup = 1 /\ pc = "idle") =>
    \A i \in EntryIdx :
      /\ Frees(heap, Entry(i).value) = 1
      /\ i < register_result.registered =>
           ReleasedBySet(i) = 1 /\ ReleasedByCleanup(i) = 0
      /\ i >= register_result.registered =>
           ReleasedBySet(i) = 0 /\ ReleasedByCleanup(i) = 1

C3_Witness ==
  /\ BatchReturned /\ n_cleanup = 1 /\ pc = "idle"
  /\ NEntries = 2 /\ register_result.registered = 1
  /\ ReleasedBySet(0) = 1 /\ ReleasedByCleanup(1) = 1

\* The iteration is between the object_set of line 77 and the release of
\* entry->value of line 90.
InsideIteration == pc \in {"sp_79", "sp_85", "sp_90"}

\* C4 as stated: at every point, at the granularity of runtime calls, every
\* entry is owned by the caller alone (not installed, handle not released by
\* the protocol) or by the target alone (installed, handle released).
C4_Original ==
  entries # <<>> =>
    \A i \in EntryIdx : Installed(i) <=> ReleasedBySet(i) >= 1

\* C4: no entry is ever owned by neither, and an entry is owned by both only
\* while its own iteration is between the successful object_set (line 77)
\* and the release of its value (line 90); at every other point, so before the
\* call, at the loop test and after the return, each entry has one owner.
C4_OneOwner ==
  entries # <<>> =>
    \A i \in EntryIdx :
      /\ ReleasedBySet(i) <= 1
      /\ ReleasedBySet(i) = 1 => Installed(i)
      /\ (Installed(i) /\ ReleasedBySet(i) = 0) => (InsideIteration /\ idx = i)

C4_Witness ==
  /\ NEntries = 2 /\ pc = "sp_90" /\ idx = 1
  /\ Installed(0) /\ ReleasedBySet(0) = 1
  /\ Installed(1) /\ ReleasedBySet(1) = 0

\* Runtime calls made by the last API call, all of them.
NoRuntimeCalls == \A f \in RuntimeFuncs : rt_calls[f] = 0
LastCall == call_log[Len(call_log)]

\* C5: with an absent table jerryx_set_properties returns {undefined, 0}
\* without any object_set, name handle or release, and the target and every
\* earlier handle are as before; jerryx_release_property_entry with an absent
\* table makes no runtime call at all, whatever result it is given.
C5_AbsentTable ==
  (entries = <<>> /\ call_log # <<>>) =>
    /\ pc = "idle"
    /\ props = props0
    /\ \A h \in DOMAIN heap0 :
         \A f \in Funcs \ {"caller"} : heap[h].freed[f] = heap0[h].freed[f]
    /\ rt_calls["jerry_object_set"] = 0
    /\ rt_calls["jerry_string_sz"] = 0
    /\ rt_calls["jerry_value_free"] = 0
    /\ LastCall.fn = "jerryx_set_properties" =>
         /\ register_result.registered = 0
         /\ register_result.outcome = Len(heap0) + 1
         /\ Len(heap) = Len(heap0) + 1
         /\ heap[register_result.outcome].kind = "undefined"
    /\ LastCall.fn = "jerryx_release_property_entry" =>
         NoRuntimeCalls /\ Len(heap) = Len(heap0)

C5_Witness ==
  /\ entries = <<>> /\ Len(call_log) = 3
  /\ call_log[1].fn = "jerryx_release_property_entry" /\ call_log[1].registered = 2
  /\ call_log[2].fn = "jerryx_set_properties" /\ call_log[2].registered = 0
  /\ call_log[3].fn = "jerryx_release_property_entry"

\* C6: after a fully successful jerryx_set_properties (registered equals the
\* table length) jerryx_release_property_entry releases no handle, the
\* first time and every time after it.
C6_CleanupAfterSuccess ==
  (BatchReturned /\ entries # <<>> /\ register_result.registered = NEntries) =>
    /\ \A h \in DOMAIN heap : heap[h].freed["jerryx_release_property_entry"] = 0
    /\ n_cleanup >= 1 => rt_calls["jerry_value_free"] = 0

C6_Witness ==
  /\ BatchReturned /\ NEntries = MaxEntries
  /\ register_result.registered = MaxEntries
  /\ n_cleanup = 2 /\ pc = "idle"
  /\ \A i \in EntryIdx : Frees(heap, Entry(i).value) = 1

\* C7: the outcome handle jerryx_set_properties returns has been released by
\* no API function: it is a fresh undefined value on the success path and the
\* failing set's own result on the failure path, so the one release the
\* caller makes is never a second release.
C7_OutcomeLive ==
  BatchReturned =>
    /\ \A f \in Funcs \ {"caller"} : heap[register_result.outcome].freed[f] = 0
    /\ Frees(heap, register_result.outcome) <= 1
    /\ IF SomeSetFailed
       THEN /\ register_result.outcome = set_log[FailedResult].result
            /\ jerry_value_is_exception(heap, register_result.outcome)
       ELSE /\ heap[register_result.outcome].kind = "undefined"
            /\ \A k \in DOMAIN set_log : set_log[k].result # register_result.outcome

C7_Witness ==
  /\ BatchReturned /\ SomeSetFailed /\ FirstFailed = 1
  /\ heap[register_result.outcome].freed["caller"] = 1
  /\ Frees(heap, register_result.outcome) = 1

\* ------------------------------------------------- claims on the accessors
HasCalls == {j \in DOMAIN call_log : call_log[j].fn = "jerryx_has_property_str"}

\* C8: jerryx_has_property_str returns true exactly when the existence check
\* answered a non-exception value that is boolean true; it returns false when
\* the property is absent and also when the check itself answered an error.
C8_HasCollapse ==
  \A j \in HasCalls :
    /\ call_log[j].has = "true" <=>
         (~jerry_value_is_exception(heap, call_log[j].rt)
          /\ jerry_value_is_true(heap, call_log[j].rt))
    /\ jerry_value_is_exception(heap, call_log[j].rt) => call_log[j].has = "false"
    /\ (heap[call_log[j].rt].kind = "boolean" /\ heap[call_log[j].rt].data = "false")
         => call_log[j].has = "false"

\* Two calls that answer false, one on an absent property and one on a
\* property that exists but whose check failed; and a call that answers true.
C8_Witness ==
  /\ \E j \in HasCalls : \E k \in HasCalls :
       /\ call_log[j].has = "false" /\ call_log[k].has = "false"
       /\ heap[call_log[j].rt].kind = "boolean"
       /\ heap[call_log[k].rt].kind = "error"
       /\ call_log[k].target = OBJ /\ props[call_log[k].name] # Absent

\* Calls j < k with only gets and has checks between them.
NoMutationBetween(j, k) ==
  \A l \in (j + 1)..(k - 1) :
    call_log[l].fn \in {"jerryx_get_property_str", "jerryx_has_property_str"}

\* C9: after a jerryx_set_property_str (target, name, v) that succeeded, a
\* jerryx_get_property_str (target, name) with no mutation in between
\* returns a handle on a value equal to v's.
C9_RoundTrip ==
  \A j \in DOMAIN call_log : \A k \in DOMAIN call_log :
    ( /\ j < k
      /\ call_log[j].fn = "jerryx_set_property_str"
      /\ jerry_value_is_true(heap, call_log[j].ret)
      /\ call_log[k].fn = "jerryx_get_property_str"
      /\ call_log[k].target = call_log[j].target
      /\ call_log[k].name = call_log[j].name
      /\ NoMutationBetween(j, k) )
    => /\ heap[call_log[k].ret].kind = "value"
       /\ heap[call_log[k].ret].data = heap[call_log[j].value].data

C9_Witness ==
  /\ Len(call_log) = 2
  /\ call_log[1].fn = "jerryx_set_property_str"
  /\ jerry_value_is_true(heap, call_log[1].ret)
  /\ call_log[1].value = CallerValue(2)
  /\ call_log[2].fn = "jerryx_get_property_str"
  /\ call_log[2].target = call_log[1].target
  /\ call_log[2].name = call_log[1].name
  /\ heap[call_log[2].ret].data = heap[call_log[1].value].data

SetStrCalls == {j \in DOMAIN call_log : call_log[j].fn = "jerryx_set_property_str"}

\* C10: jerryx_set_property_str releases the value handle passed to it on
\* no path; the handle it returns is the raw result of the object_set (a
\* boolean true or an error), a new handle that no API function released.
C10_SetStrKeepsValue ==
  \A j \in SetStrCalls :
    /\ \A f \in Funcs \ {"caller"} :
         /\ heap[call_log[j].value].freed[f] = 0
         /\ heap[call_log[j].ret].freed[f] = 0
    /\ call_log[j].ret = call_log[j].rt
    /\ call_log[j].ret # call_log[j].value
    /\ \A l \in 1..(j - 1) : call_log[l].ret # call_log[j].ret
    /\ \/ jerry_value_is_true(heap, call_log[j].ret)
       \/ jerry_value_is_exception(heap, call_log[j].ret)
    /\ (j = Len(call_log) /\ jerry_value_is_exception(heap, call_log[j].ret))
         => props = props0

C10_Witness ==
  /\ Len(call_log) = 2
  /\ call_log[1].fn = "jerryx_set_property_str"
  /\ call_log[2].fn = "jerryx_set_property_str"
  /\ call_log[1].value = call_log[2].value
  /\ jerry_value_is_true(heap, call_log[1].ret)
  /\ jerry_value_is_exception(heap, call_log[2].ret)
  /\ Live(heap, call_log[1].value)
  /\ Live(heap, call_log[1].ret) /\ Live(heap, call_log[2].ret)

\* ------------------------------------------- claims on the loop's behaviour
SetAnswered(i, outs) ==
  \E k \in DOMAIN set_log : set_log[k].idx = i /\ set_log[k].out \in outs

C12_Original ==
  (BatchReturned /\ SomeSetFailed) =>
    /\ heap[set_log[FailedResult].result].freed["jerryx_set_properties"] = 1
    /\ ReleasedBySet(FirstFailed) = 0

\* C12: when the set for entry i fails, jerryx_set_properties does not release
\* the failed set's result handle: it returns it as the outcome; the results
\* of the sets that succeeded are the ones it releases, once each, and the
\* failing entry's value handle is left unreleased.
C12_FailedResultReturned ==
  (BatchReturned /\ SomeSetFailed) =>
    /\ heap[set_log[FailedResult].result].freed["jerryx_set_properties"] = 0
    /\ set_log[FailedResult].result = register_result.outcome
    /\ ReleasedBySet(FirstFailed) = 0
    /\ \A k \in DOMAIN set_log :
         set_log[k].out = "true" =>
           /\ heap[set_log[k].result].freed["jerryx_set_properties"] = 1
           /\ Frees(heap, set_log[k].result) = 1

C12_Witness ==
  /\ BatchReturned /\ SomeSetFailed /\ NEntries = 2 /\ FirstFailed = 1
  /\ Live(heap, register_result.outcome)
  /\ Live(heap, Entry(1).value)
  /\ Frees(heap, set_log[1].result) = 1

NameHandles == {h \in DOMAIN heap : heap[h].kind = "string"}

\* C13: every iteration of jerryx_set_properties makes one name handle and
\* releases it once, after the object_set and before the result is examined,
\* whether the set succeeded or not; none is live at the return, none is the
\* outcome, and registered counts the installed entries only.
C13_NameHandles ==
  /\ Cardinality(NameHandles) = Len(set_log) + (IF pc = "sp_77" THEN 1 ELSE 0)
  /\ \A h \in NameHandles :
       /\ Frees(heap, h) = heap[h].freed["jerryx_set_properties"]
       /\ Frees(heap, h) <= 1
       /\ Frees(heap, h) = 0 => (h = prop_name /\ pc \in {"sp_77", "sp_79"})
  /\ pc \in {"sp_77", "sp_79"} => (prop_name \in NameHandles /\ Live(heap, prop_name))
  /\ pc = "sp_79" => (Len(set_log) = idx + 1 /\ set_log[idx + 1].result = result)
  /\ pc \in {"sp_85", "sp_90", "sp_91"} =>
       (prop_name \in NameHandles /\ Frees(heap, prop_name) = 1)
  /\ BatchReturned =>
       /\ \A h \in NameHandles : Frees(heap, h) = 1
       /\ register_result.outcome \notin NameHandles
       /\ register_result.registered = Cardinality({i \in EntryIdx : Installed(i)})

C13_Witness ==
  /\ BatchReturned /\ NEntries = 2 /\ SomeSetFailed /\ FirstFailed = 1
  /\ Cardinality(NameHandles) = 2
  /\ \A h \in NameHandles : Frees(heap, h) = 1
  /\ register_result.registered = 1

SetPropertiesBody == {"sp_76", "sp_77", "sp_79", "sp_85", "sp_90", "sp_91"}

\* C14: with the sentinel at index n, jerryx_set_properties reads entries at
\* indices 0..n only, one after the other, calls object_set on the entries
\* in table order and never on the sentinel, and returns registered <= n; the
\* cleanup given that result scans from registered and stops at the sentinel.
C14_WithinTable ==
  /\ entries = <<>> => pc = "idle"
  /\ pc \in {"sp_72", "rel_113"} => idx \in 0..NEntries
  /\ pc \in SetPropertiesBody \cup {"rel_115"} =>
       (idx \in EntryIdx /\ Entry(idx).name # NULL)
  /\ \A k \in DOMAIN set_log : set_log[k].idx = k - 1 /\ set_log[k].idx < NEntries
  /\ pc \in {"sp_72", "sp_76", "sp_77"} => idx = Len(set_log)
  /\ pc \in {"sp_79", "sp_85", "sp_90", "sp_91"} => idx = Len(set_log) - 1
  /\ BatchReturned => register_result.registered <= NEntries
  /\ pc \in {"rel_113", "rel_115"} => idx >= register_result.registered

C14_Witness ==
  /\ NEntries = 2 /\ BatchReturned /\ register_result.registered = 1
  /\ pc = "rel_113" /\ idx = 2 /\ Entry(idx).name = NULL
  /\ ReleasedByCleanup(1) = 1

\* The last API call entered is a cleanup of the caller's table.
InCleanup ==
  \/ pc \in {"rel_113", "rel_115"}
  \/ /\ pc = "idle" /\ entries # <<>> /\ call_log # <<>>
     /\ LastCall.fn = "jerryx_release_property_entry"

\* Calls made so far stay within the table: at most n object_set calls, no
\* entry set twice, at most n - registered releases by one cleanup.
WithinLinearWork ==
  /\ Len(set_log) <= NEntries
  /\ \A k \in DOMAIN set_log : \A l \in DOMAIN set_log :
       set_log[k].idx = set_log[l].idx => k = l
  /\ InCleanup =>
       rt_calls["jerry_value_free"] <= NEntries - register_result.registered

\* C15: on a table of n entries jerryx_set_properties returns after at most n
\* object_set calls and jerryx_release_property_entry after at most
\* n - registered releases; a call that has started always returns, and no
\* failed entry is set again.
C15_Terminates ==
  /\ []WithinLinearWork
  /\ (pc # "idle") ~> (pc = "idle")

C15_Witness ==
  /\ InCleanup /\ pc = "idle" /\ NEntries = 2
  /\ Len(set_log) = 2 /\ SomeSetFailed
  /\ register_result.registered = 1
  /\ rt_calls["jerry_value_free"] = 1

\* ------------------------------------------- handle balance of the accessors
AccessorCalls ==
  {j \in DOMAIN call_log :
     call_log[j].fn \in {"jerryx_set_property_str", "jerryx_get_property_str",
                         "jerryx_has_property_str"}}

ApiFrees(h) == Frees(heap, h) - heap[h].freed["caller"]

\* C16: every accessor call obtains two handles, the name and the runtime's
\* answer.  jerryx_has_property_str releases both once and returns no handle;
\* jerryx_get_property_str and jerryx_set_property_str release the name once
\* and return the answer unreleased, on the success and on the error path.
C16_AccessorBalance ==
  /\ Len(heap) = Len(InitHeap(0, <<>>)) + 2 * Len(call_log)
  /\ \A j \in AccessorCalls :
       /\ call_log[j].rt = Len(InitHeap(0, <<>>)) + 2 * j
       /\ heap[call_log[j].rt - 1].kind = "string"
       /\ heap[call_log[j].rt - 1].data = call_log[j].name
       /\ heap[call_log[j].rt - 1].freed[call_log[j].fn] = 1
       /\ Frees(heap, call_log[j].rt - 1) = 1
       /\ heap[call_log[j].rt].kind # "string"
       /\ IF call_log[j].fn = "jerryx_has_property_str"
          THEN /\ call_log[j].ret = 0
               /\ heap[call_log[j].rt].freed["jerryx_has_property_str"] = 1
               /\ Frees(heap, call_log[j].rt) = 1
          ELSE /\ call_log[j].ret = call_log[j].rt
               /\ ApiFrees(call_log[j].rt) = 0
               /\ Frees(heap, call_log[j].rt) <= 1

C16_Witness ==
  /\ Len(call_log) = 2
  /\ call_log[1].fn = "jerryx_has_property_str"
  /\ jerry_value_is_exception(heap, call_log[1].rt)
  /\ Frees(heap, call_log[1].rt) = 1
  /\ call_log[2].fn = "jerryx_get_property_str"
  /\ jerry_value_is_exception(heap, call_log[2].ret)
  /\ Live(heap, call_log[2].ret)
  /\ Frees(heap, call_log[2].rt - 1) = 1

\* ------------------------------------------ jerryx_handler_register_global
GlobalCalls ==
  {j \in DOMAIN call_log : call_log[j].fn = "jerryx_handler_register_global"}

ReleasedOnceByRegisterGlobal(h) ==
  /\ heap[h].freed["jerryx_handler_register_global"] = 1
  /\ Frees(heap, h) = 1

\* C17: jerryx_handler_register_global releases the realm object, the name
\* string and the native function it obtained once each, whether the set
\* succeeded or failed, and returns the set's result (true or an error)
\* unreleased.
C17_RegisterGlobalBalance ==
  /\ Len(heap) = Len(InitHeap(0, <<>>)) + 4 * Len(call_log)
  /\ \A j \in GlobalCalls :
       /\ call_log[j].rt = Len(InitHeap(0, <<>>)) + 4 * j
       /\ heap[call_log[j].rt - 3].kind = "object"
       /\ heap[call_log[j].rt - 2].kind = "string"
       /\ heap[call_log[j].rt - 2].data = call_log[j].name
       /\ heap[call_log[j].rt - 1].kind = "function"
       /\ \A h \in (call_log[j].rt - 3)..(call_log[j].rt - 1) :
            ReleasedOnceByRegisterGlobal(h)
       /\ call_log[j].ret = call_log[j].rt
       /\ ApiFrees(call_log[j].ret) = 0
       /\ Frees(heap, call_log[j].ret) <= 1
       /\ \/ jerry_value_is_true(heap, call_log[j].ret)
          \/ jerry_value_is_exception(heap, call_log[j].ret)
       /\ (j = Len(call_log) /\ jerry_value_is_true(heap, call_log[j].ret))
            => props[call_log[j].name] = heap[call_log[j].value].data
       /\ (j = Len(call_log) /\ jerry_value_is_exception(heap, call_log[j].ret))
            => props = props0

C17_Witness ==
  /\ Len(call_log) = 2 /\ GlobalCalls = {1, 2}
  /\ jerry_value_is_true(heap, call_log[1].ret)
  /\ jerry_value_is_exception(heap, call_log[2].ret)
  /\ Live(heap, call_log[1].ret) /\ Live(heap, call_log[2].ret)
  /\ \A h \in (call_log[2].rt - 3)..(call_log[2].rt - 1) :
       ReleasedOnceByRegisterGlobal(h)
====
